---------------------------- MODULE Spec2Model ----------------------------
(***************************************************************************)
(* Model of the DatoCMS image-optimization webhook repository.             *)
(*                                                                         *)
(* This part models utils/assetReplacer.ts: replaceAssetFromUrl, the       *)
(* four-call asset replacement protocol, run by NumInv invocations that    *)
(* interleave at their await points, against a content store, an object    *)
(* store and an image server that answer each call with any of the         *)
(* outcomes an HTTP call can have.                                         *)
(***************************************************************************)
EXTENDS Integers, Sequences, FiniteSets, TLC

\* ------------------------------------------------------------------ bounds
\* Number of replaceAssetFromUrl invocations that may run concurrently.
NumInv == 2

Inv == 1..NumInv

\* Invocations of the webhook handler.
NumReq == 2
Req == 1..NumReq

\* Calls of the client functions made from outside the handler.
MaxDirect == 2

\* Times applyImgixOptimizations is applied, each time on its last result.
MaxRounds == 2

\* ------------------------------------------------------------- value space
\* JavaScript's undefined, for an optional parameter or a missing JSON field.
Undef == "undefined"

\* Asset ids the store holds when the model starts.
AssetIds == {"a1", "a2"}

\* The path an asset has before any replacement.
OrigPath(a) == "orig-" \o a

\* process.env.DATOCMS_API_TOKEN: unset (empty) or set.
ApiTokens == {"", "secret"}

\* Inputs of replaceAssetFromUrl: (assetId, newImageUrl, filename).
ImageUrls == {"https://img/x.jpg?auto=format,compress&q=75"}
CallInputs ==
  {[assetId |-> "a1", filename |-> Undef],
   [assetId |-> "a2", filename |-> "optimized-pic.jpg"],
   [assetId |-> "", filename |-> Undef]}

\* HTTP statuses the servers answer with; Response.ok is status in 200..299.
ErrStatuses == {404, 500}
Ok(status) == status >= 200 /\ status <= 299

StatusText(status) ==
  CASE status = 200 -> "OK"
    [] status = 404 -> "Not Found"
    [] status = 500 -> "Internal Server Error"
    [] OTHER -> ""

\* The body text of an error response.
ErrorBody(status) == "{errors:" \o ToString(status) \o "}"

\* The PathToken the store mints for its n-th upload request, and the
\* pre-signed object-store URL that goes with it.
PathToken(n) == "/uploads/path-" \o ToString(n)
S3UrlOf(token) == "https://s3" \o token
S3Headers == [h \in {"x-amz-acl"} |-> "public-read"]
NoHeaders == [h \in {} |-> ""]

\* The bytes an image URL serves.
BytesOf(url) == "bytes(" \o url \o ")"

BaseUrl == "https://site-api.datocms.com"
DefaultFilename == "optimized-image.jpg"

\* Messages of the four errors replaceAssetFromUrl constructs, one per step.
MsgStageRequest == "Failed to create upload request"
MsgSourceFetch == "Failed to fetch image from URL"
MsgStageUpload == "Failed to upload file to S3"
MsgFinalize == "Failed to update asset metadata"
MsgMissingParams == "Missing required parameters: assetId and apiToken are required"

NoError == [name |-> "none", msg |-> "", status |-> 0, detail |-> ""]
NoBody == [shape |-> "none", id |-> Undef, url |-> Undef, headers |-> NoHeaders, text |-> ""]
NoRequest == [method |-> "", url |-> "", auth |-> "", headers |-> NoHeaders,
              path |-> Undef, id |-> Undef, filename |-> Undef, bytes |-> ""]

VARIABLES
  apiToken,  \* process.env.DATOCMS_API_TOKEN
  inv,       \* inv[i]: the local state of invocation i of replaceAssetFromUrl
  calls,     \* calls[i]: the remote calls invocation i issued, in order, with the server's answer
  net,       \* the calls in flight: [inv, idx], idx an index of calls[inv]
  assets,    \* content store: asset id -> [path, writer]
  staged,    \* object store: the set of [url, bytes] objects staged
  nextToken, \* content store: number of the next upload request
  deployed,  \* which webhook handler source is deployed
  hs,        \* hs[h]: the state of webhook handler invocation h
  clientInstance, \* datoCmsClient.ts: the cached client, or null
  ops,       \* the operations asked of the content-store client, in order
  direct,    \* the calls of the client functions made from outside the handler
  dv         \* a call of applyImgixOptimizations: its arguments and result

replacerVars == <<inv, calls, net, staged, nextToken>>
handlerVars == <<deployed, hs>>
clientVars == <<clientInstance, ops, direct>>
vars == <<apiToken, inv, calls, net, assets, staged, nextToken, deployed, hs, clientInstance, ops, direct, dv>>


\* --------------------------------------------------------- local state
\* The local state of an invocation that has not been called yet.
IdleLocal ==
  [pc |-> "idle", assetId |-> "", newImageUrl |-> "", filename |-> Undef,
   uploadPath |-> Undef, s3Url |-> Undef, s3Headers |-> NoHeaders,
   imageBuffer |-> "", result |-> NoBody, error |-> NoError]

\* pc values at which the invocation awaits the answer to call 1..4.
WaitPc(step) == "w" \o ToString(step)
Waiting == {WaitPc(k) : k \in 1..4}

\* JavaScript truthiness of a string-or-undefined value.
Truthy(s) == s # Undef /\ s # ""

\* The headers object sent on the content-store calls.
AuthHeader == "Bearer " \o apiToken

\* throw inside the try block: the catch logs and rethrows the same error.
Throw(l, err) == [l EXCEPT !.pc = "failed", !.error = err]

\* The error fetch() rejects with when the transport fails.
FetchError(url) ==
  [name |-> "FetchError", msg |-> "request to " \o url \o " failed", status |-> 0, detail |-> ""]

\* response.json() on a body that is not JSON.
InvalidJson(url) ==
  [name |-> "FetchError", msg |-> "invalid json response body at " \o url, status |-> 0, detail |-> ""]

\* Destructuring a property of undefined, or fetch(undefined).
TypeErr(what) == [name |-> "TypeError", msg |-> what, status |-> 0, detail |-> ""]

\* new Error(`${msg}: ${status} ${detail}`)
HttpError(msg, status, detail) ==
  [name |-> "Error", msg |-> msg, status |-> status, detail |-> detail]

\* ------------------------------------------------------- the four requests
\* Step 1: POST /upload-requests with the desired filename.
StageRequestReq(l) ==
  [NoRequest EXCEPT !.method = "POST", !.url = BaseUrl \o "/upload-requests",
     !.auth = AuthHeader,
     !.filename = IF Truthy(l.filename) THEN l.filename ELSE DefaultFilename]

\* Step 2: GET newImageUrl.
SourceFetchReq(l) ==
  [NoRequest EXCEPT !.method = "GET", !.url = l.newImageUrl]

\* Mutant of StageBytesReq: the pre-signed URL of the first upload request
\* kept and used again.
StageBytesReq_CachedUrl(l) ==
  [NoRequest EXCEPT !.method = "PUT", !.url = S3UrlOf(PathToken(1)),
     !.headers = ("Content-Length" :> ToString(Len(l.imageBuffer))) @@ l.s3Headers,
     !.bytes = l.imageBuffer]

\* Step 3: PUT the buffer to the pre-signed URL; Content-Length overrides.
StageBytesReq(l) ==
  [NoRequest EXCEPT !.method = "PUT", !.url = l.s3Url,
     !.headers = ("Content-Length" :> ToString(Len(l.imageBuffer))) @@ l.s3Headers,
     !.bytes = l.imageBuffer]

\* Mutants of FinalizeReq: the path taken from the wrong field; a token kept
\* from the first upload request; the asset created anew instead of updated.
FinalizeReq_WrongPath(l) ==
  [NoRequest EXCEPT !.method = "PUT", !.url = BaseUrl \o "/uploads/" \o l.assetId,
     !.auth = AuthHeader, !.id = l.assetId, !.path = l.s3Url]

FinalizeReq_CachedToken(l) ==
  [NoRequest EXCEPT !.method = "PUT", !.url = BaseUrl \o "/uploads/" \o l.assetId,
     !.auth = AuthHeader, !.id = l.assetId, !.path = PathToken(1)]

FinalizeReq_FixedAsset(l) ==
  [NoRequest EXCEPT !.method = "PUT", !.url = BaseUrl \o "/uploads/a1",
     !.auth = AuthHeader, !.id = "a1", !.path = l.uploadPath]

FinalizeReq_Create(l) ==
  [NoRequest EXCEPT !.method = "POST", !.url = BaseUrl \o "/uploads",
     !.auth = AuthHeader, !.id = l.assetId, !.path = l.uploadPath]

\* Step 4: PUT /uploads/{assetId} with {data: {id, type, attributes: {path}}}.
\* JSON.stringify drops an undefined path: Undef stands for the absent key.
FinalizeReq(l) ==
  [NoRequest EXCEPT !.method = "PUT", !.url = BaseUrl \o "/uploads/" \o l.assetId,
     !.auth = AuthHeader, !.id = l.assetId, !.path = l.uploadPath]

Pending == [status |-> 0, net |-> "pending", body |-> NoBody]

Call(step, req) == [step |-> step, req |-> req, answer |-> Pending]

\* Mutants of CallsOnEntry: the source fetch started together with step 1;
\* the asset repointed before the bytes are staged.
CallsOnEntry_Eager(l) ==
  CASE l.pc = "w1" -> <<Call(1, StageRequestReq(l)), Call(2, SourceFetchReq(l))>>
    [] l.pc = "w2" -> <<>>
    [] l.pc = "w3" -> <<Call(3, StageBytesReq(l))>>
    [] l.pc = "w4" -> <<Call(4, FinalizeReq(l))>>
    [] OTHER -> <<>>

CallsOnEntry_CommitFirst(l) ==
  CASE l.pc = "w1" -> <<Call(1, StageRequestReq(l))>>
    [] l.pc = "w2" -> <<Call(2, SourceFetchReq(l))>>
    [] l.pc = "w3" -> <<Call(3, FinalizeReq(l))>>
    [] l.pc = "w4" -> <<Call(4, StageBytesReq(l))>>
    [] OTHER -> <<>>

\* The calls issued when the invocation reaches local state l: the fetch
\* whose answer l.pc awaits.
CallsOnEntry(l) ==
  CASE l.pc = "w1" -> <<Call(1, StageRequestReq(l))>>
    [] l.pc = "w2" -> <<Call(2, SourceFetchReq(l))>>
    [] l.pc = "w3" -> <<Call(3, StageBytesReq(l))>>
    [] l.pc = "w4" -> <<Call(4, FinalizeReq(l))>>
    [] OTHER -> <<>>

\* ------------------------------------------------- responses, as fetch sees them
\* fetch() rejected: the transport failed before a response arrived.
NetError == [net |-> "error", status |-> 0, statusText |-> "", body |-> NoBody]

\* fetch() resolved with a Response.
HttpResponse(status, body) ==
  [net |-> "ok", status |-> status, statusText |-> StatusText(status), body |-> body]

ErrorBodyOf(status) == [NoBody EXCEPT !.shape = "text", !.text = ErrorBody(status)]

\* ---------------------------------------------- continuations after each await
\* Mutants of AfterStageRequest: the status check left out; a refused
\* request tried again.
AfterStageRequest_NoStatusCheck(l, r) ==
  IF r.net # "ok" THEN Throw(l, FetchError(BaseUrl \o "/upload-requests"))
  ELSE IF r.body.shape = "invalid" THEN Throw(l, InvalidJson(BaseUrl \o "/upload-requests"))
  ELSE IF r.body.shape \in {"nodata", "noattrs"}
    THEN Throw(l, TypeErr("Cannot destructure property of undefined"))
  ELSE [l EXCEPT !.uploadPath = r.body.id, !.s3Url = r.body.url,
                 !.s3Headers = r.body.headers, !.pc = "w2"]

AfterStageRequest_Retry(l, r) ==
  IF r.net # "ok" THEN Throw(l, FetchError(BaseUrl \o "/upload-requests"))
  ELSE IF ~Ok(r.status) THEN [l EXCEPT !.pc = "w1"]
  ELSE IF r.body.shape = "invalid" THEN Throw(l, InvalidJson(BaseUrl \o "/upload-requests"))
  ELSE IF r.body.shape \in {"nodata", "noattrs"}
    THEN Throw(l, TypeErr("Cannot destructure property of undefined"))
  ELSE [l EXCEPT !.uploadPath = r.body.id, !.s3Url = r.body.url,
                 !.s3Headers = r.body.headers, !.pc = "w2"]

\* Lines 82-98: check step 1's response, parse and destructure it, start step 2.
AfterStageRequest(l, r) ==
  IF r.net # "ok" THEN Throw(l, FetchError(BaseUrl \o "/upload-requests"))
  ELSE IF ~Ok(r.status) THEN Throw(l, HttpError(MsgStageRequest, r.status, r.body.text))
  ELSE IF r.body.shape = "invalid" THEN Throw(l, InvalidJson(BaseUrl \o "/upload-requests"))
  ELSE IF r.body.shape \in {"nodata", "noattrs"}
    THEN Throw(l, TypeErr("Cannot destructure property of undefined"))
  ELSE [l EXCEPT !.uploadPath = r.body.id, !.s3Url = r.body.url,
                 !.s3Headers = r.body.headers, !.pc = "w2"]

\* Lines 99-113: check step 2's response, buffer the body, start step 3.
\* fetch(undefined) rejects without issuing a request.
AfterSourceFetch(l, r) ==
  IF r.net # "ok" THEN Throw(l, FetchError(l.newImageUrl))
  ELSE IF ~Ok(r.status) THEN Throw(l, HttpError(MsgSourceFetch, r.status, r.statusText))
  ELSE IF l.s3Url = Undef
    THEN Throw([l EXCEPT !.imageBuffer = r.body.text], TypeErr("Only absolute URLs are supported"))
  ELSE [l EXCEPT !.imageBuffer = r.body.text, !.pc = "w3"]

\* Mutant of AfterStageBytes: the status check left out.
AfterStageBytes_NoStatusCheck(l, r) ==
  IF r.net # "ok" THEN Throw(l, FetchError(l.s3Url))
  ELSE [l EXCEPT !.pc = "w4"]

\* Lines 115-132: check step 3's response, start step 4.
AfterStageBytes(l, r) ==
  IF r.net # "ok" THEN Throw(l, FetchError(l.s3Url))
  ELSE IF ~Ok(r.status) THEN Throw(l, HttpError(MsgStageUpload, r.status, r.statusText))
  ELSE [l EXCEPT !.pc = "w4"]

\* Mutants of AfterFinalize: the parsed body not returned; a refused
\* finalize answered by staging the bytes again.
AfterFinalize_NoResult(l, r) ==
  IF r.net # "ok" THEN Throw(l, FetchError(BaseUrl \o "/uploads/" \o l.assetId))
  ELSE IF ~Ok(r.status) THEN Throw(l, HttpError(MsgFinalize, r.status, r.body.text))
  ELSE IF r.body.shape = "invalid" THEN Throw(l, InvalidJson(BaseUrl \o "/uploads/" \o l.assetId))
  ELSE [l EXCEPT !.pc = "done"]

AfterFinalize_Retry(l, r) ==
  IF r.net # "ok" THEN Throw(l, FetchError(BaseUrl \o "/uploads/" \o l.assetId))
  ELSE IF ~Ok(r.status) THEN [l EXCEPT !.pc = "w3"]
  ELSE IF r.body.shape = "invalid" THEN Throw(l, InvalidJson(BaseUrl \o "/uploads/" \o l.assetId))
  ELSE [l EXCEPT !.pc = "done", !.result = r.body]

\* Lines 134-141: check step 4's response, parse it and return it.
AfterFinalize(l, r) ==
  IF r.net # "ok" THEN Throw(l, FetchError(BaseUrl \o "/uploads/" \o l.assetId))
  ELSE IF ~Ok(r.status) THEN Throw(l, HttpError(MsgFinalize, r.status, r.body.text))
  ELSE IF r.body.shape = "invalid" THEN Throw(l, InvalidJson(BaseUrl \o "/uploads/" \o l.assetId))
  ELSE [l EXCEPT !.pc = "done", !.result = r.body]

\* Lines 51-80: the parameter check, outside the try block, then step 1.
AfterCall(l) ==
  IF ~Truthy(l.assetId) \/ ~Truthy(apiToken)
    THEN [l EXCEPT !.pc = "failed", !.error = [NoError EXCEPT !.name = "Error", !.msg = MsgMissingParams]]
  ELSE [l EXCEPT !.pc = "w1"]

\* ------------------------------------------------------------------ servers
\* The state of the remote side.
Remote == [assets |-> assets, staged |-> staged, nextToken |-> nextToken]

\* What a server does with a request: the status and body it answers and the
\* remote state it leaves. Any request may be refused with an error status.
Refusals == {[status |-> s, body |-> ErrorBodyOf(s), state |-> Remote] : s \in ErrStatuses}

Accepts(body, state) == [status |-> 200, body |-> body, state |-> state]

\* Bodies the content store may answer to POST /upload-requests for token n:
\* {data: {id, type, attributes: {url, request_headers}}}, or a malformed one.
UploadRequestBodies(n) ==
  LET full == [NoBody EXCEPT !.shape = "json", !.id = PathToken(n),
                             !.url = S3UrlOf(PathToken(n)), !.headers = S3Headers]
  IN {full,
      [full EXCEPT !.id = Undef], [full EXCEPT !.url = Undef],
      [full EXCEPT !.headers = NoHeaders],
      [NoBody EXCEPT !.shape = "noattrs", !.id = PathToken(n)],
      [NoBody EXCEPT !.shape = "nodata"],
      [NoBody EXCEPT !.shape = "invalid"]}

\* POST /upload-requests: mints the next PathToken.
UploadRequestsEndpoint(req) ==
  IF req.method = "POST" /\ req.auth = "Bearer secret"
    THEN {Accepts(b, [Remote EXCEPT !.nextToken = nextToken + 1]) : b \in UploadRequestBodies(nextToken)}
         \cup Refusals
  ELSE Refusals

\* GET on the image URL.
ImageServer(req) ==
  IF req.method = "GET"
    THEN {Accepts([NoBody EXCEPT !.shape = "bytes", !.text = BytesOf(req.url)], Remote)} \cup Refusals
  ELSE Refusals

\* PUT on a pre-signed URL: stores the object.
ObjectStore(req) ==
  IF req.method = "PUT"
    THEN {Accepts(NoBody, [Remote EXCEPT !.staged = staged \cup {[url |-> req.url, bytes |-> req.bytes]}])}
         \cup Refusals
  ELSE Refusals

\* Bodies the content store may answer to an update:
\* {data: {id, type, attributes}} with some id, or with none, or no JSON.
UpdateBodies ==
  {[NoBody EXCEPT !.shape = "json", !.id = id] : id \in AssetIds \cup {Undef}}
  \cup {[NoBody EXCEPT !.shape = "invalid"]}

NewAssetId == "new-" \o ToString(Cardinality(DOMAIN assets))

\* PUT /uploads/{a}: repoints asset a at the path in the body, if any.
\* who: the invocation that sent the request.
UpdateUploadEndpoint(req, a, who) ==
  LET written == IF req.path = Undef THEN assets
                 ELSE [assets EXCEPT ![a] = [path |-> req.path, writer |-> who]]
  IN IF req.method = "PUT" /\ req.auth = "Bearer secret"
       THEN {Accepts(b, [Remote EXCEPT !.assets = written]) : b \in UpdateBodies} \cup Refusals
     ELSE Refusals

\* POST /uploads: creates an asset for the path in the body.
CreateUploadEndpoint(req, who) ==
  IF req.method = "POST" /\ req.auth = "Bearer secret" /\ req.path # Undef
    THEN {Accepts([NoBody EXCEPT !.shape = "json", !.id = NewAssetId],
                  [Remote EXCEPT !.assets = (NewAssetId :> [path |-> req.path, writer |-> who]) @@ assets])}
         \cup Refusals
  ELSE Refusals

\* The server a request reaches, by its URL.
Serve(req, who) ==
  IF req.url = BaseUrl \o "/upload-requests" THEN UploadRequestsEndpoint(req)
  ELSE IF req.url = BaseUrl \o "/uploads" THEN CreateUploadEndpoint(req, who)
  ELSE IF \E a \in DOMAIN assets : req.url = BaseUrl \o "/uploads/" \o a
    THEN UpdateUploadEndpoint(req, CHOOSE a \in DOMAIN assets : req.url = BaseUrl \o "/uploads/" \o a, who)
  ELSE IF \E n \in 1..(nextToken - 1) : req.url = S3UrlOf(PathToken(n)) THEN ObjectStore(req)
  ELSE IF req.url \in ImageUrls THEN ImageServer(req)
  ELSE Refusals

\* The outcomes of a call: the request is lost, or the server acts and its
\* response arrives, or the server acts and its response is lost.
Outcomes(req, who) ==
  {[net |-> "lostRequest", out |-> [status |-> 0, body |-> NoBody, state |-> Remote]]}
  \cup {[net |-> "ok", out |-> o] : o \in Serve(req, who)}
  \cup {[net |-> "lostResponse", out |-> o] : o \in {x \in Serve(req, who) : Ok(x.status)}}

\* What fetch gives the caller, and what the wire saw.
Seen(oc) == IF oc.net = "ok" THEN HttpResponse(oc.out.status, oc.out.body) ELSE NetError
Logged(oc) == [status |-> oc.out.status, net |-> oc.net, body |-> oc.out.body]

\* ------------------------------------------------------------------ actions
\* ----------------------------------------------- applyImgixOptimizations
\* A URL is the sequence of its parts: a query parameter, a separator ("?",
\* "&") or any other run of text is one part. url.includes(x), for x one of
\* these parts, is x being among the parts.
Includes(url, part) == \E k \in 1..Len(url) : url[k] = part

\* The URL contains the parts of `sub`, in a row.
IncludesAll(url, sub) ==
  \E k \in 0..(Len(url) - Len(sub)) : \A j \in 1..Len(sub) : url[k + j] = sub[j]

LARGE_IMAGE_THRESHOLD == 5 * 1024 * 1024
VERY_LARGE_IMAGE_THRESHOLD == 10 * 1024 * 1024

\* The width above which a large image is resized, and the width it gets.
MaxWidth == 2000

\* The parameter string: lines 84-107.
ImgixParams(width, size) ==
  <<"auto=format,compress">> \o
  (IF size > LARGE_IMAGE_THRESHOLD
     THEN <<"&", "q=75">>
          \o (IF width > MaxWidth THEN <<"&", "w=2000">> ELSE <<>>)
          \o (IF size > VERY_LARGE_IMAGE_THRESHOLD THEN <<"&", "dpr=2">> ELSE <<>>)
     ELSE <<"&", "q=85">>)

\* Mutants of applyImgixOptimizations: each threshold compared with >=.
applyImgixOptimizations_LargeAtThreshold(imageUrl, width, height, size) ==
  imageUrl \o (IF Includes(imageUrl, "?") THEN <<"&">> ELSE <<"?">>) \o
  <<"auto=format,compress">> \o
  (IF size >= LARGE_IMAGE_THRESHOLD
     THEN <<"&", "q=75">>
          \o (IF width > MaxWidth THEN <<"&", "w=2000">> ELSE <<>>)
          \o (IF size > VERY_LARGE_IMAGE_THRESHOLD THEN <<"&", "dpr=2">> ELSE <<>>)
     ELSE <<"&", "q=85">>)

applyImgixOptimizations_VeryLargeAtThreshold(imageUrl, width, height, size) ==
  imageUrl \o (IF Includes(imageUrl, "?") THEN <<"&">> ELSE <<"?">>) \o
  <<"auto=format,compress">> \o
  (IF size > LARGE_IMAGE_THRESHOLD
     THEN <<"&", "q=75">>
          \o (IF width > MaxWidth THEN <<"&", "w=2000">> ELSE <<>>)
          \o (IF size >= VERY_LARGE_IMAGE_THRESHOLD THEN <<"&", "dpr=2">> ELSE <<>>)
     ELSE <<"&", "q=85">>)

applyImgixOptimizations_WideAtThreshold(imageUrl, width, height, size) ==
  imageUrl \o (IF Includes(imageUrl, "?") THEN <<"&">> ELSE <<"?">>) \o
  <<"auto=format,compress">> \o
  (IF size > LARGE_IMAGE_THRESHOLD
     THEN <<"&", "q=75">>
          \o (IF width >= MaxWidth THEN <<"&", "w=2000">> ELSE <<>>)
          \o (IF size > VERY_LARGE_IMAGE_THRESHOLD THEN <<"&", "dpr=2">> ELSE <<>>)
     ELSE <<"&", "q=85">>)

\* Mutant of applyImgixOptimizations: the parameters replace the query.
applyImgixOptimizations_ReplacesQuery(imageUrl, width, height, size) ==
  IF Includes(imageUrl, "?")
    THEN SubSeq(imageUrl, 1, (CHOOSE k \in 1..Len(imageUrl) : imageUrl[k] = "?")) \o ImgixParams(width, size)
    ELSE imageUrl \o <<"?">> \o ImgixParams(width, size)

\* Lines 76-115: the parameters are joined with "&" to a URL that has a "?",
\* with "?" to one that has none.
applyImgixOptimizations(imageUrl, width, height, size) ==
  IF Includes(imageUrl, "?")
    THEN imageUrl \o <<"&">> \o ImgixParams(width, size)
    ELSE imageUrl \o <<"?">> \o ImgixParams(width, size)

\* Arguments the function is applied to.
DeriveUrls ==
  {<<"https://x/img.jpg">>,
   <<"https://x/img.jpg", "?", "v=2">>,
   <<"https://x/img.jpg", "?", "auto=format,compress", "&", "q=85">>,
   <<"https://x/img.jpg", "?", "auto=format,compress", "&", "q=75", "&", "w=2000", "&", "dpr=2">>}
DeriveWidths == {800, 2000, 2001, 3000}
DeriveHeights == {600, 1000}
DeriveSizes ==
  {0, 1000000, LARGE_IMAGE_THRESHOLD, LARGE_IMAGE_THRESHOLD + 1,
   VERY_LARGE_IMAGE_THRESHOLD, VERY_LARGE_IMAGE_THRESHOLD + 1, 11000000}

DeriveIdle ==
  dv = [pc |-> "idle", round |-> 0, url |-> <<>>, width |-> 0, height |-> 0, size |-> 0, out |-> <<>>]

\* ------------------------------------------------------- datoCmsClient.ts
\* let clientInstance = null; a built client holds the token it was built with.
NoClient == [built |-> FALSE, apiToken |-> ""]

MsgTokenNotSet == "DATOCMS_API_TOKEN environment variable is not set"

\* Mutant of getClient: the client is built without looking at the token.
getClient_Unchecked ==
  IF clientInstance.built THEN [error |-> Undef, client |-> clientInstance]
  ELSE [error |-> Undef, client |-> [built |-> TRUE, apiToken |-> apiToken]]

\* Mutant of getClient: a client is built at every call.
getClient_Rebuilt ==
  IF ~Truthy(apiToken) THEN [error |-> MsgTokenNotSet, client |-> clientInstance]
  ELSE [error |-> Undef, client |-> [built |-> TRUE, apiToken |-> apiToken]]

\* getClient(): the cached client; or a client built with the token of the
\* environment, which is then cached; or an error when there is no token.
getClient ==
  IF clientInstance.built THEN [error |-> Undef, client |-> clientInstance]
  ELSE IF ~Truthy(apiToken) THEN [error |-> MsgTokenNotSet, client |-> clientInstance]
  ELSE [error |-> Undef, client |-> [built |-> TRUE, apiToken |-> apiToken]]

\* A URL nobody has set.
NoUrl == <<>>

\* An operation asked of the client's uploads resource: a remote call.
\* caller: the handler invocation that awaits it, 0 for a direct caller.
NoOp ==
  [caller |-> 0, op |-> Undef, url |-> NoUrl, filename |-> Undef, skipCreationIfAlreadyExists |-> Undef,
   uploadId |-> Undef, auth |-> Undef, state |-> "pending", result |-> Undef]

\* client.uploads.createFromUrl({url, skipCreationIfAlreadyExists: false,
\* ...(filename ? {filename} : {})})
CreateFromUrlOp(caller, client, url, filename) ==
  [NoOp EXCEPT !.caller = caller, !.op = "uploads.createFromUrl", !.url = url,
               !.filename = IF Truthy(filename) THEN filename ELSE Undef,
               !.skipCreationIfAlreadyExists = "false", !.auth = client.apiToken]

\* client.uploads.find(uploadId)
FindOp(caller, client, uploadId) ==
  [NoOp EXCEPT !.caller = caller, !.op = "uploads.find", !.uploadId = uploadId, !.auth = client.apiToken]

\* client.uploads.destroy(uploadId)
DestroyOp(caller, client, uploadId) ==
  [NoOp EXCEPT !.caller = caller, !.op = "uploads.destroy", !.uploadId = uploadId, !.auth = client.apiToken]

\* The part of createUploadFromUrl, getUpload and deleteUpload that runs
\* before their await: getClient(), then the operation is asked of the
\* client. error: what the function rejects with when getClient throws.
ClientCall(op) ==
  LET g == getClient
  IN IF g.error # Undef
       THEN [error |-> g.error, client |-> g.client, ops |-> ops]
     ELSE [error |-> Undef, client |-> g.client, ops |-> Append(ops, [op EXCEPT !.auth = g.client.apiToken])]

createUploadFromUrl(caller, url, filename) == ClientCall(CreateFromUrlOp(caller, NoClient, url, filename))
getUpload(caller, uploadId) == ClientCall(FindOp(caller, NoClient, uploadId))
deleteUpload(caller, uploadId) == ClientCall(DestroyOp(caller, NoClient, uploadId))

MsgApiError == "ApiError"

\* What the content store does with an operation: it carries it out, or it
\* refuses it. state: the assets it leaves.
StoreOutcomes(op) ==
  {[state |-> "failed", result |-> MsgApiError, assets |-> assets]}
  \cup (IF op.auth # "secret" THEN {}
        ELSE IF op.op = "uploads.createFromUrl"
          THEN {[state |-> "ok", result |-> NewAssetId,
                 assets |-> (NewAssetId :> [path |-> "/uploads/from-url", writer |-> 0]) @@ assets]}
        ELSE IF op.uploadId \notin DOMAIN assets THEN {}
        ELSE IF op.op = "uploads.find"
          THEN {[state |-> "ok", result |-> op.uploadId, assets |-> assets]}
        ELSE {[state |-> "ok", result |-> op.uploadId,
               assets |-> [a \in DOMAIN assets \ {op.uploadId} |-> assets[a]]]})

ClientIdle ==
  /\ clientInstance = NoClient
  /\ ops = <<>>
  /\ direct = <<>>

\* ------------------------------------------------------ the webhook handler
\* The three handlers of the repository.
Current == "pages/api/webhook.ts"
Legacy == "unnamed/part_001"
Earliest == "unnamed/part_000"
Deployments == {Current, Legacy, Earliest}

Methods == {"POST", "GET"}

\* req.body. shape: "null" for a body that is null; "noentity" for a payload
\* without entity; "noattrs" for an entity without attributes; "nourl" for
\* attributes without url; "full" otherwise. is_image holds the JSON value:
\* true, false, or the string "true".
NoPayload ==
  [shape |-> "null", entity_type |-> Undef, id |-> Undef, is_image |-> Undef, url |-> NoUrl,
   width |-> 0, height |-> 0, size |-> 0, filename |-> Undef]

ImagePayload(size, filename) ==
  [shape |-> "full", entity_type |-> "upload", id |-> "a1", is_image |-> "true",
   url |-> <<"https://x/img.jpg">>, width |-> 3000, height |-> 2000, size |-> size, filename |-> filename]

PayloadSizes == {1000000, 5 * 1024 * 1024, 5 * 1024 * 1024 + 1, 11000000}

Payloads ==
  {NoPayload,
   [NoPayload EXCEPT !.shape = "noentity", !.entity_type = "upload"],
   [NoPayload EXCEPT !.shape = "noattrs", !.entity_type = "upload", !.id = "a1"],
   [ImagePayload(11000000, "pic.jpg") EXCEPT !.entity_type = "item"],
   [ImagePayload(11000000, "pic.jpg") EXCEPT !.is_image = "false"],
   [ImagePayload(11000000, "pic.jpg") EXCEPT !.is_image = "\"true\""],
   [ImagePayload(11000000, "pic.jpg") EXCEPT !.shape = "nourl", !.url = NoUrl]}
  \cup {ImagePayload(s, f) : s \in PayloadSizes, f \in {Undef, "pic.jpg"}}

\* The JSON body of a response; a field that is undefined is absent from it.
NoResponse ==
  [status |-> 0, received |-> Undef, message |-> Undef, error |-> Undef, optimizedUrl |-> NoUrl,
   assetReplaced |-> Undef, newUploadId |-> Undef, originalDeleted |-> Undef]

\* A handler invocation. replacerCalls, uploadCalls: the calls of
\* replaceAssetFromUrl and createUploadFromUrl it has made; caught: the error
\* its inner catch has caught; sent: the responses it has sent.
IdleHandler ==
  [pc |-> "idle", method |-> Undef, body |-> NoPayload, optimizedUrl |-> NoUrl, newUploadId |-> Undef,
   replacerCalls |-> <<>>, uploadCalls |-> <<>>, caught |-> Undef, response |-> NoResponse, sent |-> 0]

MsgMethodNotAllowed == "Method not allowed. Only POST requests are accepted."
MsgNullBody == "Cannot read properties of null (reading 'entity_type')"
MsgNoUrl == "Cannot read properties of undefined (reading 'includes')"

\* Mutant of MethodAllowed: every method is let through.
MethodAllowed_Any(method) == TRUE

\* if (req.method !== 'POST') return 405
MethodAllowed(method) == method = "POST"

\* Mutant of GateError: req.body?.entity_type
GateError_Guarded(body) == Undef

\* req.body.entity_type throws on a body that is null.
GateError(body) == IF body.shape = "null" THEN MsgNullBody ELSE Undef

\* Mutant of IsImageUpload: is_image only has to be truthy.
IsImageUpload_Truthy(body) ==
  /\ body.entity_type = "upload"
  /\ body.shape \in {"full", "nourl"}
  /\ body.is_image \in {"true", "\"true\""}

\* req.body.entity_type === 'upload' && req.body.entity?.attributes?.is_image === true
IsImageUpload(body) ==
  /\ body.entity_type = "upload"
  /\ body.shape \in {"full", "nourl"}
  /\ body.is_image = "true"

\* imageUrl.includes throws on a url that is undefined.
DeriverError(body) == IF body.shape = "nourl" THEN MsgNoUrl ELSE Undef

\* Mutant of ExceedsThreshold: the threshold itself triggers.
ExceedsThreshold_Inclusive(size) == size >= 5 * 1024 * 1024

\* if (size > 5 * 1024 * 1024)
ExceedsThreshold(size) == size > 5 * 1024 * 1024

ReplacerArgs(body, optimizedUrl) ==
  [assetId |-> body.id, newImageUrl |-> optimizedUrl, filename |-> body.filename]

\* Mutant of ReplacementPath: the call of replaceAssetFromUrl is made.
ReplacementPath_Enabled(body, optimizedUrl) == <<ReplacerArgs(body, optimizedUrl)>>

\* The try block of the current handler, for a large image: the calls of
\* replaceAssetFromUrl it makes. Every statement of the block, and the
\* import of replaceAssetFromUrl, is commented out.
ReplacementPath(body, optimizedUrl) == <<>>

\* filename ? `optimized-${filename}` : undefined
OptimizedFilename(filename) == IF Truthy(filename) THEN "optimized-" \o filename ELSE Undef

\* The 500 of the outer catch, in the current handler and in the older ones.
ErrorResponse(which, msg) ==
  IF which = Current
    THEN [NoResponse EXCEPT !.status = 500, !.received = "true", !.message = "Error processing webhook",
                            !.error = msg]
  ELSE [NoResponse EXCEPT !.status = 500, !.received = "false", !.error = "Failed to process webhook",
                          !.message = msg]

\* Mutant of OkResponse: the original is reported deleted once an optimized
\* upload exists.
OkResponse_ReportsDeleted(which, l) ==
  IF which = Earliest
    THEN [NoResponse EXCEPT !.status = 200, !.received = "true",
                            !.message = "Webhook successfully received and logged"]
  ELSE [NoResponse EXCEPT !.status = 200, !.received = "true",
                          !.message = "Webhook successfully received and processed",
                          !.optimizedUrl = l.optimizedUrl, !.newUploadId = l.newUploadId,
                          !.originalDeleted = IF l.newUploadId # Undef THEN "true" ELSE "false"]

\* The 200 of each handler, from its local variables.
OkResponse(which, l) ==
  IF which = Current
    THEN [NoResponse EXCEPT !.status = 200, !.received = "true", !.message = "Webhook processed successfully",
                            !.optimizedUrl = l.optimizedUrl, !.assetReplaced = "false",
                            !.newUploadId = l.newUploadId, !.originalDeleted = "false"]
  ELSE IF which = Legacy
    THEN [NoResponse EXCEPT !.status = 200, !.received = "true",
                            !.message = "Webhook successfully received and processed",
                            !.optimizedUrl = l.optimizedUrl, !.newUploadId = l.newUploadId,
                            !.originalDeleted = "false"]
  ELSE [NoResponse EXCEPT !.status = 200, !.received = "true",
                          !.message = "Webhook successfully received and logged"]

Respond(l, response) == [l EXCEPT !.pc = "done", !.response = response, !.sent = l.sent + 1]

\* Mutant of UploadRejected: the error reaches the outer catch.
UploadRejected_Uncaught(which, l, error) == Respond(l, ErrorResponse(which, error))

\* Mutant of UploadRejected: the inner catch answers 500, and the handler
\* goes on to its 200.
UploadRejected_RespondsTwice(which, l, error) ==
  LET l2 == Respond([l EXCEPT !.caught = error], ErrorResponse(which, error))
  IN Respond(l2, OkResponse(which, l2))

\* The legacy handler after createUploadFromUrl has rejected: its inner
\* catch logs the error, and the handler answers 200.
UploadRejected(which, l, error) ==
  LET l2 == [l EXCEPT !.caught = error] IN Respond(l2, OkResponse(which, l2))

\* Mutant of UploadResolved: the id is not taken from the upload.
UploadResolved_NoId(which, l, id) == Respond(l, OkResponse(which, l))

\* The legacy handler after createUploadFromUrl has resolved with an upload:
\* if (uploadResponse?.id) newUploadId = uploadResponse.id
UploadResolved(which, l, id) ==
  LET l2 == [l EXCEPT !.newUploadId = IF Truthy(id) THEN id ELSE l.newUploadId]
  IN Respond(l2, OkResponse(which, l2))

\* Mutant of AwaitUpload: the promise is not awaited, the handler answers.
AwaitUpload_NotAwaited(which, l) == Respond(l, OkResponse(which, l))

\* const uploadResponse = await createUploadFromUrl(...): the handler stops
\* until the promise settles.
AwaitUpload(which, l) == [l EXCEPT !.pc = "awaitUpload"]

\* A handler runs from its first line to its response or to its first
\* await. handler: its state then; client, ops: the client's.
Ran(l, client, os) == [handler |-> l, client |-> client, ops |-> os]

Handle(which, h, method, body) ==
  LET l == [IdleHandler EXCEPT !.method = method, !.body = body]
      derived == [l EXCEPT !.optimizedUrl = applyImgixOptimizations(body.url, body.width, body.height, body.size)]
      replaced == [derived EXCEPT !.replacerCalls = ReplacementPath(body, derived.optimizedUrl)]
      uploading == AwaitUpload(which, [derived EXCEPT !.uploadCalls =
                                         <<[url |-> derived.optimizedUrl,
                                            filename |-> OptimizedFilename(body.filename)]>>])
      c == createUploadFromUrl(h, derived.optimizedUrl, OptimizedFilename(body.filename))
  IN IF ~MethodAllowed(method)
       THEN Ran(Respond(l, [NoResponse EXCEPT !.status = 405, !.error = MsgMethodNotAllowed]), clientInstance, ops)
     ELSE IF which = Earliest THEN Ran(Respond(l, OkResponse(which, l)), clientInstance, ops)
     ELSE IF GateError(body) # Undef
       THEN Ran(Respond(l, ErrorResponse(which, GateError(body))), clientInstance, ops)
     ELSE IF ~IsImageUpload(body) THEN Ran(Respond(l, OkResponse(which, l)), clientInstance, ops)
     ELSE IF DeriverError(body) # Undef
       THEN Ran(Respond(l, ErrorResponse(which, DeriverError(body))), clientInstance, ops)
     ELSE IF ~ExceedsThreshold(body.size)
       THEN Ran(Respond(derived, OkResponse(which, derived)), clientInstance, ops)
     ELSE IF which = Current THEN Ran(Respond(replaced, OkResponse(which, replaced)), clientInstance, ops)
     ELSE IF c.error # Undef THEN Ran(UploadRejected(which, uploading, c.error), c.client, c.ops)
     ELSE Ran(uploading, c.client, c.ops)

HandlerIdle ==
  /\ deployed = Current
  /\ hs = [h \in Req |-> IdleHandler]

\* The assets the store holds before any replacement.
InitialAssets == [a \in AssetIds |-> [path |-> OrigPath(a), writer |-> 0]]

\* No invocation of replaceAssetFromUrl has been made.
ReplacerIdle ==
  /\ inv = [i \in Inv |-> IdleLocal]
  /\ calls = [i \in Inv |-> <<>>]
  /\ net = {}
  /\ assets = InitialAssets
  /\ staged = {}
  /\ nextToken = 1

Init ==
  /\ apiToken \in ApiTokens
  /\ inv = [i \in Inv |-> IdleLocal]
  /\ calls = [i \in Inv |-> <<>>]
  /\ net = {}
  /\ assets = InitialAssets
  /\ staged = {}
  /\ nextToken = 1
  /\ HandlerIdle /\ ClientIdle /\ DeriveIdle

\* Invocation i moves to local state l2, issuing the calls l2 starts.
Enter(i, answered, l2) ==
  LET cs == answered \o CallsOnEntry(l2)
  IN /\ inv' = [inv EXCEPT ![i] = l2]
     /\ calls' = [calls EXCEPT ![i] = cs]
     /\ net' = {c \in net : c.inv # i \/ answered[c.idx].answer = Pending}
               \cup {[inv |-> i, idx |-> j] : j \in (Len(answered) + 1)..Len(cs)}

\* replaceAssetFromUrl(assetId, newImageUrl, filename) is called.
Start(i) ==
  /\ inv[i].pc = "idle"
  /\ \E in \in CallInputs, u \in ImageUrls :
       Enter(i, calls[i], AfterCall([IdleLocal EXCEPT !.assetId = in.assetId, !.newImageUrl = u,
                                                      !.filename = in.filename]))
  /\ UNCHANGED <<apiToken, assets, staged, nextToken>>
  /\ UNCHANGED <<handlerVars, clientVars, dv>>

InFlight(i, step) == {c \in net : c.inv = i /\ calls[i][c.idx].step = step}

\* Call idx of invocation i is answered with outcome oc. If the invocation
\* still awaits it, it continues in local state l2; an abandoned invocation
\* discards the answer.
Answer(i, idx, oc, l2) ==
  /\ Enter(i, [calls[i] EXCEPT ![idx].answer = Logged(oc)],
           IF inv[i].pc = WaitPc(calls[i][idx].step) THEN l2 ELSE inv[i])
  /\ assets' = oc.out.state.assets
  /\ staged' = oc.out.state.staged
  /\ nextToken' = oc.out.state.nextToken
  /\ UNCHANGED <<apiToken, handlerVars, clientVars, dv>>

\* The answer to step 1 (POST /upload-requests).
StageRequestResponse(i) ==
  \E c \in InFlight(i, 1) : \E oc \in Outcomes(calls[i][c.idx].req, i) :
    Answer(i, c.idx, oc, AfterStageRequest(inv[i], Seen(oc)))

\* The answer to step 2 (GET newImageUrl).
SourceFetchResponse(i) ==
  \E c \in InFlight(i, 2) : \E oc \in Outcomes(calls[i][c.idx].req, i) :
    Answer(i, c.idx, oc, AfterSourceFetch(inv[i], Seen(oc)))

\* The answer to step 3 (PUT to the pre-signed URL).
StageBytesResponse(i) ==
  \E c \in InFlight(i, 3) : \E oc \in Outcomes(calls[i][c.idx].req, i) :
    Answer(i, c.idx, oc, AfterStageBytes(inv[i], Seen(oc)))

\* The answer to step 4 (PUT /uploads/{assetId}).
FinalizeResponse(i) ==
  \E c \in InFlight(i, 4) : \E oc \in Outcomes(calls[i][c.idx].req, i) :
    Answer(i, c.idx, oc, AfterFinalize(inv[i], Seen(oc)))

\* The runtime abandons invocation i at an await; its call stays in flight.
Abandon(i) ==
  /\ inv[i].pc \in Waiting
  /\ inv' = [inv EXCEPT ![i].pc = "abandoned"]
  /\ UNCHANGED <<apiToken, calls, net, assets, staged, nextToken, handlerVars, clientVars, dv>>

Next ==
  \E i \in Inv :
    \/ Start(i)
    \/ StageRequestResponse(i)
    \/ SourceFetchResponse(i)
    \/ StageBytesResponse(i)
    \/ FinalizeResponse(i)
    \/ Abandon(i)

Spec == Init /\ [][Next]_vars

\* ------------------------------------------------- webhook deliveries
\* One of the three handlers is deployed; the token is configured or not.
WebhookInit ==
  /\ apiToken \in ApiTokens
  /\ deployed \in Deployments
  /\ hs = [h \in Req |-> IdleHandler]
  /\ ReplacerIdle /\ ClientIdle /\ DeriveIdle

\* A request reaches handler invocation h, which runs to its response or to
\* its await of createUploadFromUrl.
Receive(h) ==
  /\ hs[h].pc = "idle"
  /\ \E method \in Methods, body \in Payloads :
       LET r == Handle(deployed, h, method, body)
       IN /\ hs' = [hs EXCEPT ![h] = r.handler]
          /\ clientInstance' = r.client
          /\ ops' = r.ops
  /\ UNCHANGED <<apiToken, assets, replacerVars, deployed, direct, dv>>

\* The operation handler invocation h awaits settles, and h runs to its
\* response.
UploadSettles(h) ==
  /\ hs[h].pc = "awaitUpload"
  /\ \E k \in 1..Len(ops) :
       /\ ops[k].caller = h /\ ops[k].state = "pending"
       /\ \E oc \in StoreOutcomes(ops[k]) :
            /\ ops' = [ops EXCEPT ![k].state = oc.state, ![k].result = oc.result]
            /\ assets' = oc.assets
            /\ hs' = [hs EXCEPT ![h] = IF oc.state = "ok"
                                         THEN UploadResolved(deployed, hs[h], oc.result)
                                       ELSE UploadRejected(deployed, hs[h], oc.result)]
  /\ UNCHANGED <<apiToken, replacerVars, deployed, clientInstance, direct, dv>>

WebhookNext == \E h \in Req : Receive(h) \/ UploadSettles(h)

SpecWebhook == WebhookInit /\ [][WebhookNext]_vars

\* ------------------------------------------- the library, called directly
\* replaceAssetFromUrl and the functions of datoCmsClient.ts are called from
\* outside the handler; the token is configured or not.
ConfigInit ==
  /\ apiToken \in ApiTokens
  /\ ReplacerIdle /\ HandlerIdle /\ ClientIdle /\ DeriveIdle

UploadIds == {"a2", "gone"}

\* The calls a direct caller makes.
DirectCalls ==
  {[fn |-> "createUploadFromUrl", url |-> u, filename |-> f, uploadId |-> Undef] :
     u \in {<<"https://x/img.jpg">>}, f \in {Undef, "pic.jpg"}}
  \cup {[fn |-> fn, url |-> NoUrl, filename |-> Undef, uploadId |-> id] :
          fn \in {"getUpload", "deleteUpload"}, id \in UploadIds}

Called(d) ==
  IF d.fn = "createUploadFromUrl" THEN createUploadFromUrl(0, d.url, d.filename)
  ELSE IF d.fn = "getUpload" THEN getUpload(0, d.uploadId)
  ELSE deleteUpload(0, d.uploadId)

\* A client function is called: it rejects when getClient throws, and
\* otherwise awaits the operation it has asked of the client.
DirectCall ==
  /\ Len(direct) < MaxDirect
  /\ \E d \in DirectCalls :
       LET c == Called(d)
       IN /\ clientInstance' = c.client
          /\ ops' = c.ops
          /\ direct' = Append(direct,
                         [call |-> d,
                          state |-> IF c.error # Undef THEN "rejected" ELSE "awaiting",
                          result |-> c.error,
                          op |-> IF c.error # Undef THEN 0 ELSE Len(c.ops)])
  /\ UNCHANGED <<apiToken, assets, replacerVars, handlerVars, dv>>

\* The operation a direct call awaits settles: the call resolves with the
\* upload (deleteUpload: with true), or rejects with the operation's error.
DirectSettles ==
  \E k \in 1..Len(direct) :
    /\ direct[k].state = "awaiting"
    /\ \E oc \in StoreOutcomes(ops[direct[k].op]) :
         /\ ops' = [ops EXCEPT ![direct[k].op].state = oc.state, ![direct[k].op].result = oc.result]
         /\ assets' = oc.assets
         /\ direct' = [direct EXCEPT ![k].state = IF oc.state = "ok" THEN "resolved" ELSE "rejected",
                                     ![k].result = IF oc.state = "ok" /\ direct[k].call.fn = "deleteUpload"
                                                     THEN "true" ELSE oc.result]
    /\ UNCHANGED <<apiToken, replacerVars, handlerVars, clientInstance, dv>>

\* One invocation of replaceAssetFromUrl runs beside the direct calls.
ConfigInv == {1}

ConfigNext ==
  \/ DirectCall
  \/ DirectSettles
  \/ \E i \in ConfigInv :
       \/ Start(i)
       \/ StageRequestResponse(i)
       \/ SourceFetchResponse(i)
       \/ StageBytesResponse(i)
       \/ FinalizeResponse(i)
       \/ Abandon(i)

SpecConfig == ConfigInit /\ [][ConfigNext]_vars

\* ----------------------------------------------- the client, over time
\* Values process.env.DATOCMS_API_TOKEN may hold when getClient reads it.
EnvTokens == ApiTokens \cup {"rotated"}

\* The environment variable is set, changed or removed between two calls.
SetToken ==
  /\ \E t \in EnvTokens : t # apiToken /\ apiToken' = t
  /\ UNCHANGED <<assets, replacerVars, handlerVars, clientVars, dv>>

ClientNext == DirectCall \/ DirectSettles \/ SetToken

SpecClient == ConfigInit /\ [][ClientNext]_vars

\* ------------------------------------------- an endpoint that never answers
\* The answer of a call whose endpoint has taken the connection and never
\* responds: fetch is called without timeout or abort signal, so its promise
\* never settles.
Silent == [Pending EXCEPT !.net = "silent"]

\* The endpoint of the call invocation i awaits goes silent.
Hang(i) ==
  /\ inv[i].pc \in Waiting
  /\ \E c \in net :
       /\ c.inv = i
       /\ calls' = [calls EXCEPT ![i][c.idx].answer = Silent]
       /\ net' = net \ {c}
  /\ UNCHANGED <<apiToken, inv, assets, staged, nextToken, handlerVars, clientVars, dv>>

\* One invocation, which the runtime lets run; any call that is not silent
\* is answered in the end, and the invocation then continues.
HangNext ==
  \E i \in ConfigInv :
    \/ Start(i)
    \/ StageRequestResponse(i)
    \/ SourceFetchResponse(i)
    \/ StageBytesResponse(i)
    \/ FinalizeResponse(i)
    \/ Hang(i)

SpecHang ==
  /\ Init
  /\ [][HangNext]_vars
  /\ \A i \in ConfigInv :
       /\ WF_vars(StageRequestResponse(i))
       /\ WF_vars(SourceFetchResponse(i))
       /\ WF_vars(StageBytesResponse(i))
       /\ WF_vars(FinalizeResponse(i))

\* ------------------------------------------- applying the Deriver
\* The function is called with some arguments, and returns.
DeriveInit ==
  /\ dv \in [pc : {"called"}, round : {1}, url : DeriveUrls, width : DeriveWidths,
             height : DeriveHeights, size : DeriveSizes, out : {<<>>}]
  /\ apiToken = "secret"
  /\ ReplacerIdle /\ HandlerIdle /\ ClientIdle

Derive ==
  /\ dv.pc = "called"
  /\ dv' = [dv EXCEPT !.pc = "returned",
                      !.out = applyImgixOptimizations(dv.url, dv.width, dv.height, dv.size)]
  /\ UNCHANGED <<apiToken, assets, replacerVars, handlerVars, clientVars>>

\* The function is called again, on the URL it has returned, for an image
\* of some width, height and size.
DeriveAgain ==
  /\ dv.pc = "returned"
  /\ dv.round < MaxRounds
  /\ \E w \in DeriveWidths, h \in DeriveHeights, s \in DeriveSizes :
       dv' = [pc |-> "called", round |-> dv.round + 1, url |-> dv.out, width |-> w, height |-> h,
              size |-> s, out |-> <<>>]
  /\ UNCHANGED <<apiToken, assets, replacerVars, handlerVars, clientVars>>

DeriveNext == Derive \/ DeriveAgain

SpecDerive == DeriveInit /\ [][DeriveNext]_vars

\* ------------------------------------------------------- reading the state
\* The error kind of an error, by the message replaceAssetFromUrl gave it.
Kind(err) ==
  IF err.name # "Error" THEN "Other"
  ELSE CASE err.msg = MsgMissingParams -> "ConfigurationError"
         [] err.msg = MsgStageRequest -> "StageRequestFailed"
         [] err.msg = MsgSourceFetch -> "SourceFetchFailed"
         [] err.msg = MsgStageUpload -> "StageUploadFailed"
         [] err.msg = MsgFinalize -> "FinalizeFailed"
         [] OTHER -> "Other"

\* The kind the design gives to a failure of step k.
KindOfStep(k) ==
  CASE k = 1 -> "StageRequestFailed"
    [] k = 2 -> "SourceFetchFailed"
    [] k = 3 -> "StageUploadFailed"
    [] k = 4 -> "FinalizeFailed"

\* Answers of a call: a non-2xx response arrived; the transport failed;
\* the server took the request and answered 2xx.
Refused(c) == c.answer.net = "ok" /\ ~Ok(c.answer.status)
TransportFailed(c) == c.answer.net \in {"lostRequest", "lostResponse"}
Applied(c) == c.answer.net \in {"ok", "lostResponse"} /\ Ok(c.answer.status)
Succeeded(c) == c.answer.net = "ok" /\ Ok(c.answer.status)

\* The indices of the calls of invocation i that are of step k.
CallsOfStep(i, k) == {idx \in 1..Len(calls[i]) : calls[i][idx].step = k}

\* The calls of invocation i in flight.
Flying(i) == {c \in net : c.inv = i}

\* ------------------------------------------------------------------ claims

\* C1: if the step-1 call (POST /upload-requests) is answered with a non-2xx
\* status, the invocation issues no other call (steps 2, 3 and 4 never
\* happen) and, unless it was abandoned, it fails with the StageRequestFailed
\* error, which carries the status code and the response body.
C1_StageRequestRefused ==
  \A i \in Inv : \A idx \in CallsOfStep(i, 1) :
    Refused(calls[i][idx]) =>
      /\ Len(calls[i]) = 1
      /\ Flying(i) = {}
      /\ inv[i].pc \in {"failed", "abandoned"}
      /\ inv[i].pc = "failed" =>
           /\ Kind(inv[i].error) = "StageRequestFailed"
           /\ inv[i].error.status = calls[i][idx].answer.status
           /\ inv[i].error.detail = calls[i][idx].answer.body.text

C1_Witness ==
  \E i \in Inv :
    /\ inv[i].pc = "failed"
    /\ Len(calls[i]) = 1 /\ Refused(calls[i][1])
    /\ inv[i].error = HttpError(MsgStageRequest, 404, ErrorBody(404))

\* C2: every finalize call an invocation issues carries, as the path attribute
\* of its body, the id that the same invocation's own step-1 call was answered
\* with (absent when that answer had no id), whatever the store answered and
\* however the invocations interleave.
C2_PathIsOwnToken ==
  \A i \in Inv : \A idx \in CallsOfStep(i, 4) :
    \E j \in CallsOfStep(i, 1) :
      /\ j < idx
      /\ Succeeded(calls[i][j])
      /\ calls[i][idx].req.path = calls[i][j].answer.body.id

\* Both invocations reached step 4, the first with the second token minted.
C2_Witness ==
  /\ \A i \in Inv : CallsOfStep(i, 4) # {}
  /\ \E idx \in CallsOfStep(1, 4) : calls[1][idx].req.path = PathToken(2)
  /\ \E idx \in CallsOfStep(2, 4) : calls[2][idx].req.path = PathToken(1)

\* C3 as stated: on full success the asset id in the result equals the input
\* assetId, whatever body the store answered the finalize call with.
C3_ResultIdIsInput ==
  \A i \in Inv : inv[i].pc = "done" => inv[i].result.id = inv[i].assetId

\* C3 as amended: on full success the result is the parsed body of the store's
\* answer to the finalize call, unchanged; its asset id equals the input
\* assetId whenever that body carries the id the finalize call named.
C3_ResultIsStoreBody ==
  \A i \in Inv :
    inv[i].pc = "done" =>
      \E idx \in CallsOfStep(i, 4) :
        /\ Succeeded(calls[i][idx])
        /\ inv[i].result = calls[i][idx].answer.body
        /\ calls[i][idx].req.id = inv[i].assetId
        /\ calls[i][idx].answer.body.id = calls[i][idx].req.id => inv[i].result.id = inv[i].assetId

C3_Witness ==
  \E i \in Inv :
    /\ inv[i].pc = "done"
    /\ inv[i].assetId = "a2"
    /\ inv[i].result.shape = "json" /\ inv[i].result.id = "a2"

C5_StrictlySequential ==
  \A i \in Inv :
    /\ \A idx \in 1..Len(calls[i]) : calls[i][idx].step = idx
    /\ \A idx \in 1..(Len(calls[i]) - 1) : Succeeded(calls[i][idx])
    /\ Cardinality(Flying(i)) <= 1
    /\ \A c \in Flying(i) : c.idx = Len(calls[i])

\* Both invocations have their finalize call in flight.
C5_Witness ==
  \A i \in Inv : Len(calls[i]) = 4 /\ Flying(i) = {[inv |-> i, idx |-> 4]}

\* C6: no step is retried: in one invocation each of the four remote calls
\* is issued at most once, whether the invocation succeeds or fails.
C6_NoRetry ==
  \A i \in Inv : \A k \in 1..4 : Cardinality(CallsOfStep(i, k)) <= 1

\* One invocation succeeded and the other failed on a refused call.
C6_Witness ==
  /\ inv[1].pc = "done" /\ Len(calls[1]) = 4
  /\ inv[2].pc = "failed" /\ Len(calls[2]) = 3 /\ Refused(calls[2][3])

\* The store took a finalize call of invocation i and answered it 2xx.
FinalizeApplied(i) == \E idx \in CallsOfStep(i, 4) : Applied(calls[i][idx])

\* C7: step 4 is the only commit point: an invocation none of whose finalize
\* calls succeeded at the store (it is still running, it failed, or it was
\* abandoned) has written no asset, and while no invocation's finalize call
\* has succeeded every asset points where it pointed at the start.
C7_FinalizeIsOnlyCommit ==
  /\ \A i \in Inv : ~FinalizeApplied(i) => \A a \in DOMAIN assets : assets[a].writer # i
  /\ (\A i \in Inv : ~FinalizeApplied(i)) => assets = InitialAssets

\* One invocation failed on a refused finalize call, the other was abandoned
\* after staging its bytes, and the bytes of both are staged.
C7_Witness ==
  /\ inv[1].pc = "failed" /\ Len(calls[1]) = 4 /\ Refused(calls[1][4])
  /\ inv[2].pc = "abandoned" /\ Len(calls[2]) = 3 /\ Applied(calls[2][3])
  /\ Cardinality(staged) = 2
  /\ assets = InitialAssets

\* C8: the replacement path never mints or removes an asset: the set of asset
\* ids in the store stays the initial one, so every reference to an asset id
\* still resolves; only the path behind an id changes.
C8_NoAssetMinted ==
  /\ DOMAIN assets = AssetIds
  /\ \A a \in AssetIds : assets[a].writer # 0 => inv[assets[a].writer].assetId = a

\* One replacement succeeded and one failed, and an asset's path changed.
C8_Witness ==
  /\ inv[1].pc = "done" /\ inv[2].pc = "failed" /\ Len(calls[2]) = 4
  /\ assets["a1"].path = PathToken(1)
  /\ assets["a2"] = InitialAssets["a2"]

C10_LastWriteWins ==
  \A a \in DOMAIN assets :
    assets[a].writer # 0 =>
      /\ assets[a].writer \in Inv
      /\ inv[assets[a].writer].assetId = a
      /\ FinalizeApplied(assets[a].writer)
      /\ assets[a].path = inv[assets[a].writer].uploadPath

\* Both invocations replaced asset a1 and succeeded; the first got its token
\* first and its finalize call was applied last.
C10_Witness ==
  /\ \A i \in Inv : inv[i].pc = "done" /\ inv[i].assetId = "a1"
  /\ inv[1].uploadPath = PathToken(1) /\ inv[2].uploadPath = PathToken(2)
  /\ assets["a1"] = [path |-> PathToken(1), writer |-> 1]

\* The body the store answered invocation i's upload request with.
OwnUploadRequest(i) == calls[i][1].answer.body

\* C11: every invocation uses the upload request it created itself and no
\* other: it issues one upload request, stages its bytes to the uploadUrl of
\* that request and finalizes the asset it was called for with the PathToken
\* of that request; the tokens of two invocations differ, so no asset ever
\* points at a token issued to another invocation.
C11_OwnUploadRequest ==
  /\ \A i \in Inv :
       /\ Cardinality(CallsOfStep(i, 1)) <= 1
       /\ \A idx \in CallsOfStep(i, 3) : calls[i][idx].req.url = OwnUploadRequest(i).url
       /\ \A idx \in CallsOfStep(i, 4) :
            /\ calls[i][idx].req.path = OwnUploadRequest(i).id
            /\ calls[i][idx].req.url = BaseUrl \o "/uploads/" \o inv[i].assetId
  /\ \A i, j \in Inv :
       (i # j /\ inv[i].uploadPath # Undef) => inv[i].uploadPath # inv[j].uploadPath
  /\ \A a \in DOMAIN assets : \A j \in Inv :
       (assets[a].writer # 0 /\ j # assets[a].writer) =>
         /\ assets[a].path = OwnUploadRequest(assets[a].writer).id
         /\ Len(calls[j]) >= 1 => assets[a].path # OwnUploadRequest(j).id

\* Replacements of two different assets interleaved and both succeeded, each
\* asset pointing at its own invocation's token.
C11_Witness ==
  /\ inv[1].pc = "done" /\ inv[1].assetId = "a1" /\ inv[1].uploadPath = PathToken(2)
  /\ inv[2].pc = "done" /\ inv[2].assetId = "a2" /\ inv[2].uploadPath = PathToken(1)
  /\ assets["a1"].path = PathToken(2) /\ assets["a2"].path = PathToken(1)

\* ----------------------------------------------------- reading a delivery
Done(h) == hs[h].pc = "done"

\* The operations handler invocation h has asked of the client.
OpsOf(h) == {k \in 1..Len(ops) : ops[k].caller = h}

\* The trigger of the optimization path, read off the payload.
LargeImageUpload(body) ==
  /\ body.shape = "full"
  /\ body.entity_type = "upload"
  /\ body.is_image = "true"
  /\ body.size > 5 * 1024 * 1024

\* C12 as stated: whenever the optimization path (asset replacement, or
\* upload creation in the legacy handler) raises an error, the handler
\* catches it and answers 200 with assetReplaced = false and no newUploadId.
C12_FailureAnswersNotReplaced ==
  \A h \in Req :
    Done(h) /\ (hs[h].caught # Undef \/ \E k \in OpsOf(h) : ops[k].state = "failed") =>
      /\ hs[h].response.status = 200
      /\ hs[h].response.assetReplaced = "false"
      /\ hs[h].response.newUploadId = Undef

\* C12, amended: when upload creation in the legacy handler raises an error
\* (no token, or the store refuses the operation), the handler catches it and
\* answers 200 without newUploadId, in a body that has no assetReplaced
\* field; the optimization path of the current handler is empty and raises
\* nothing, and each of its 200 answers carries assetReplaced = false; no
\* handler answers a failed optimization otherwise than with 200.
C12_FailureStillAnswersOk ==
  \A h \in Req :
    Done(h) =>
      /\ (hs[h].caught # Undef \/ \E k \in OpsOf(h) : ops[k].state = "failed") =>
           /\ deployed = Legacy
           /\ hs[h].caught # Undef
           /\ hs[h].response.status = 200
           /\ hs[h].response.newUploadId = Undef
           /\ hs[h].response.assetReplaced = Undef
      /\ (LargeImageUpload(hs[h].body) /\ hs[h].method = "POST") => hs[h].response.status = 200
      /\ deployed = Current =>
           /\ OpsOf(h) = {} /\ hs[h].caught = Undef
           /\ hs[h].response.status = 200 => hs[h].response.assetReplaced = "false"

\* A legacy handler whose upload creation the store refused has answered
\* 200, beside one whose upload was created.
C12_Witness ==
  /\ \E h \in Req :
       /\ Done(h) /\ hs[h].caught = MsgApiError /\ hs[h].response.status = 200
       /\ \E k \in OpsOf(h) : ops[k].state = "failed"
  /\ \E h \in Req : Done(h) /\ hs[h].response.newUploadId # Undef

NamesImageUpload(body) ==
  /\ body.entity_type = "upload"
  /\ body.shape \in {"full", "nourl"}
  /\ body.is_image = "true"

\* C14 as stated: for a POST, the response of the current and of the legacy
\* handler carries an optimizedUrl if and only if entity_type is "upload"
\* and is_image is exactly true, whatever the size; for every other payload
\* no call is made.
C14_OptimizedUrlIffImageUpload ==
  \A h \in Req :
    Done(h) /\ hs[h].method = "POST" /\ deployed \in {Current, Legacy} =>
      /\ hs[h].response.optimizedUrl # NoUrl <=> NamesImageUpload(hs[h].body)
      /\ ~NamesImageUpload(hs[h].body) =>
           hs[h].uploadCalls = <<>> /\ hs[h].replacerCalls = <<>> /\ OpsOf(h) = {}

\* C14, amended: for a POST, the response of the current and of the legacy
\* handler carries an optimizedUrl, the Deriver's result for the payload's
\* url, width, height and size, if and only if entity_type is "upload",
\* is_image is exactly true and the attributes have a url, whatever the
\* size; an image upload without url is answered 500; for every other
\* payload optimizedUrl is absent and no call is made.
C14_OptimizedUrlIffImageWithUrl ==
  \A h \in Req :
    Done(h) /\ hs[h].method = "POST" /\ deployed \in {Current, Legacy} =>
      /\ hs[h].response.optimizedUrl # NoUrl <=>
           NamesImageUpload(hs[h].body) /\ hs[h].body.shape = "full"
      /\ hs[h].response.optimizedUrl # NoUrl =>
           /\ hs[h].response.status = 200
           /\ hs[h].response.optimizedUrl =
                applyImgixOptimizations(hs[h].body.url, hs[h].body.width, hs[h].body.height, hs[h].body.size)
      /\ NamesImageUpload(hs[h].body) /\ hs[h].body.shape = "nourl" => hs[h].response.status = 500
      /\ ~NamesImageUpload(hs[h].body) =>
           hs[h].uploadCalls = <<>> /\ hs[h].replacerCalls = <<>> /\ OpsOf(h) = {}

\* A small image has been answered with its optimizedUrl, and an upload
\* whose is_image is the string "true" has been answered without one.
C14_Witness ==
  /\ deployed \in {Current, Legacy}
  /\ \E h \in Req :
       /\ Done(h) /\ hs[h].method = "POST" /\ hs[h].body.size = 1000000
       /\ hs[h].response.optimizedUrl = <<"https://x/img.jpg", "?", "auto=format,compress", "&", "q=85">>
  /\ \E h \in Req :
       /\ Done(h) /\ hs[h].method = "POST" /\ hs[h].body.is_image = "\"true\""
       /\ hs[h].response.status = 200 /\ hs[h].response.optimizedUrl = NoUrl

\* C15: a request whose method is not POST is answered 405 at once, with
\* only an error message: the Deriver is not applied, nothing is asked of the
\* content store and no client is built, whatever the body and whichever
\* handler is deployed.
C15_NonPostIs405 ==
  /\ \A h \in Req :
       hs[h].pc # "idle" /\ hs[h].method # "POST" =>
         /\ Done(h)
         /\ hs[h].response = [NoResponse EXCEPT !.status = 405, !.error = MsgMethodNotAllowed]
         /\ hs[h].optimizedUrl = NoUrl
         /\ hs[h].uploadCalls = <<>> /\ hs[h].replacerCalls = <<>>
         /\ OpsOf(h) = {}
  /\ (\A h \in Req : hs[h].method # "POST") =>
       clientInstance = NoClient /\ ops = <<>> /\ assets = InitialAssets

\* The legacy handler, with a token, has answered 405 to a GET that carries
\* a large image upload, and has created an upload for the same body POSTed.
C15_Witness ==
  /\ deployed = Legacy /\ apiToken = "secret"
  /\ \E h, g \in Req :
       /\ Done(h) /\ hs[h].method = "GET" /\ LargeImageUpload(hs[h].body)
       /\ hs[h].response.status = 405
       /\ Done(g) /\ hs[g].method = "POST" /\ hs[g].body = hs[h].body
       /\ hs[g].response.newUploadId # Undef

\* The payloads on which the handler's own statements throw: a body that is
\* null, and an image upload whose attributes have no url.
Malformed(body) ==
  \/ body.shape = "null"
  \/ NamesImageUpload(body) /\ body.shape = "nourl"

\* C16: a handler answers 500 only to a POST on which an exception is raised
\* outside the replacement/upload path, as for a null or malformed body, and
\* the 500 carries that exception's message; every other POST is answered
\* 200, also when the upload path has failed.
C16_500OnlyOutsideUploadPath ==
  \A h \in Req :
    Done(h) =>
      /\ hs[h].response.status = 500 <=>
           hs[h].method = "POST" /\ deployed # Earliest /\ Malformed(hs[h].body)
      /\ hs[h].response.status = 500 =>
           /\ hs[h].caught = Undef /\ hs[h].uploadCalls = <<>> /\ OpsOf(h) = {}
           /\ {hs[h].response.error, hs[h].response.message} \cap {MsgNullBody, MsgNoUrl} # {}
      /\ hs[h].method = "POST" /\ hs[h].response.status # 500 => hs[h].response.status = 200

\* The current handler has answered 500 to a POST whose body is null; or
\* the legacy handler has, and has answered 200 where its upload failed.
C16_Witness ==
  \E h, g \in Req :
    /\ Done(h) /\ hs[h].method = "POST" /\ hs[h].body.shape = "null"
    /\ hs[h].response.status = 500
    /\ Done(g) /\ hs[g].method = "POST" /\ hs[g].response.status = 200
    /\ deployed = Legacy => hs[g].caught = MsgApiError
    /\ deployed = Current => LargeImageUpload(hs[g].body)

\* Invocation i of replaceAssetFromUrl has thrown its parameter error, and
\* has issued no call.
FailedFast(i) ==
  /\ inv[i].pc = "failed"
  /\ inv[i].error.msg = MsgMissingParams
  /\ calls[i] = <<>>

\* C17: without a token, every call of createUploadFromUrl, getUpload and
\* deleteUpload rejects with getClient's configuration error and every
\* invocation of replaceAssetFromUrl throws its parameter error, no client is
\* built, nothing is asked of the content store and no request is sent;
\* with a token, replaceAssetFromUrl fails the same way on an empty assetId.
C17_FailsFastWithoutToken ==
  /\ ~Truthy(apiToken) =>
       /\ clientInstance = NoClient /\ ops = <<>> /\ net = {} /\ assets = InitialAssets
       /\ \A k \in 1..Len(direct) :
            direct[k].state = "rejected" /\ direct[k].result = MsgTokenNotSet /\ direct[k].op = 0
       /\ \A i \in Inv : inv[i].pc # "idle" => FailedFast(i)
  /\ \A i \in Inv : inv[i].pc # "idle" /\ ~Truthy(inv[i].assetId) => FailedFast(i)

\* Without a token, a call of a client function has rejected and an
\* invocation of replaceAssetFromUrl for a named asset has failed.
C17_Witness ==
  /\ apiToken = ""
  /\ Len(direct) = MaxDirect
  /\ \E k \in 1..Len(direct) : direct[k].call.fn = "createUploadFromUrl" /\ direct[k].state = "rejected"
  /\ \E i \in Inv : inv[i].assetId = "a1" /\ FailedFast(i)

\* ------------------------------------------------- reading a derivation
Returned == dv.pc = "returned"

\* The result starts with the input URL; what follows it is a separator and
\* the parameters the function has appended.
Separator == dv.out[Len(dv.url) + 1]
Appended == SubSeq(dv.out, Len(dv.url) + 2, Len(dv.out))
Extends ==
  /\ Len(dv.out) >= Len(dv.url) + 2
  /\ SubSeq(dv.out, 1, Len(dv.url)) = dv.url
  /\ Separator = IF Includes(dv.url, "?") THEN "&" ELSE "?"

\* C18 as stated: for every url, width and height and every size up to and
\* including 5 MiB, the returned URL contains q=85 and contains neither a
\* dpr parameter nor w=2000.
C18_SmallHasNoDprNoWidth ==
  Returned /\ dv.size <= 5 * 1024 * 1024 =>
    /\ Includes(dv.out, "q=85")
    /\ ~Includes(dv.out, "dpr=2")
    /\ ~Includes(dv.out, "w=2000")

\* C18, amended: for every url, width and height and every size up to and
\* including 5 MiB, the function appends exactly auto=format,compress&q=85
\* to the url: the returned URL contains q=85, and contains a dpr parameter
\* or w=2000 only where the input url already did.
C18_SmallAppendsQ85Only ==
  Returned /\ dv.size <= 5 * 1024 * 1024 =>
    /\ Extends
    /\ Appended = <<"auto=format,compress", "&", "q=85">>
    /\ Includes(dv.out, "q=85")
    /\ Includes(dv.out, "dpr=2") <=> Includes(dv.url, "dpr=2")
    /\ Includes(dv.out, "w=2000") <=> Includes(dv.url, "w=2000")

\* A wide image of exactly 5 MiB has been given q=85 and nothing else.
C18_Witness ==
  /\ Returned /\ dv.size = 5 * 1024 * 1024 /\ dv.width = 3000
  /\ dv.out = <<"https://x/img.jpg", "?", "auto=format,compress", "&", "q=85">>

\* C19 as stated: for 5 MiB < size <= 10 MiB, with width > 2000 the returned
\* URL contains q=75&w=2000 and no dpr parameter; with width <= 2000 the
\* function adds neither w=2000 nor dpr.
C19_LargeHasWidthNoDpr ==
  Returned /\ dv.size > 5 * 1024 * 1024 /\ dv.size <= 10 * 1024 * 1024 =>
    /\ dv.width > 2000 =>
         IncludesAll(dv.out, <<"q=75", "&", "w=2000">>) /\ ~Includes(dv.out, "dpr=2")
    /\ dv.width <= 2000 =>
         ~Includes(Appended, "w=2000") /\ ~Includes(Appended, "dpr=2")

\* C19, amended: for 5 MiB < size <= 10 MiB (10 MiB included), the function
\* appends exactly auto=format,compress&q=75&w=2000 when width > 2000, so
\* that the returned URL contains q=75&w=2000, and exactly
\* auto=format,compress&q=75 when width <= 2000; it adds no dpr parameter:
\* the returned URL contains one only where the input url already did.
C19_LargeAppendsWidthNoDpr ==
  Returned /\ dv.size > 5 * 1024 * 1024 /\ dv.size <= 10 * 1024 * 1024 =>
    /\ Extends
    /\ dv.width > 2000 =>
         /\ Appended = <<"auto=format,compress", "&", "q=75", "&", "w=2000">>
         /\ IncludesAll(dv.out, <<"q=75", "&", "w=2000">>)
    /\ dv.width <= 2000 => Appended = <<"auto=format,compress", "&", "q=75">>
    /\ Includes(dv.out, "dpr=2") <=> Includes(dv.url, "dpr=2")

\* A wide image of exactly 10 MiB has been given q=75&w=2000 and no dpr.
C19_Witness ==
  /\ Returned /\ dv.size = 10 * 1024 * 1024 /\ dv.width = 2001
  /\ dv.out = <<"https://x/img.jpg", "?", "v=2", "&", "auto=format,compress", "&", "q=75", "&", "w=2000">>

\* C20: for every size above 10 MiB, the function appends exactly
\* auto=format,compress&q=75&dpr=2 when width <= 2000 (no w=2000), and
\* exactly auto=format,compress&q=75&w=2000&dpr=2 when width > 2000.
C20_VeryLargeAppendsDpr ==
  Returned /\ dv.size > 10 * 1024 * 1024 =>
    /\ Extends
    /\ dv.width <= 2000 => Appended = <<"auto=format,compress", "&", "q=75", "&", "dpr=2">>
    /\ dv.width > 2000 =>
         Appended = <<"auto=format,compress", "&", "q=75", "&", "w=2000", "&", "dpr=2">>

\* An image of width 2000, one byte above 10 MiB, has been given dpr=2 and
\* no w=2000.
C20_Witness ==
  /\ Returned /\ dv.size = 10 * 1024 * 1024 + 1 /\ dv.width = 2000
  /\ dv.out = <<"https://x/img.jpg", "?", "auto=format,compress", "&", "q=75", "&", "dpr=2">>

\* The parameter strings of the function.
ParamStrings ==
  {<<"auto=format,compress", "&", "q=85">>,
   <<"auto=format,compress", "&", "q=75">>,
   <<"auto=format,compress", "&", "q=75", "&", "w=2000">>,
   <<"auto=format,compress", "&", "q=75", "&", "dpr=2">>,
   <<"auto=format,compress", "&", "q=75", "&", "w=2000", "&", "dpr=2">>}

\* C21: the result is the input URL, whole, followed by "&" when the input
\* contains "?" and by "?" otherwise, followed by one parameter string;
\* hence the result for an already-derived URL is the first result, whole,
\* followed by "&" and a second parameter string.
C21_AppendsNeverReplaces ==
  Returned =>
    /\ Extends
    /\ Appended \in ParamStrings
    /\ dv.out = dv.url \o <<Separator>> \o Appended
    /\ dv.round > 1 => Separator = "&"

\* A derived URL has been derived again, for a very large image.
C21_Witness ==
  /\ Returned /\ dv.round = 2
  /\ dv.url = <<"https://x/img.jpg", "?", "auto=format,compress", "&", "q=85">>
  /\ dv.out = <<"https://x/img.jpg", "?", "auto=format,compress", "&", "q=85",
                "&", "auto=format,compress", "&", "q=75", "&", "dpr=2">>

\* The call of createUploadFromUrl the handler makes for its payload: the
\* derived URL, and "optimized-<filename>" when the payload has a filename.
UploadCallFor(body) ==
  [url |-> applyImgixOptimizations(body.url, body.width, body.height, body.size),
   filename |-> IF body.filename = Undef THEN Undef ELSE "optimized-" \o body.filename]

\* C22: for every POST for an image upload larger than 5 MiB, the current
\* and the legacy handler have called createUploadFromUrl once, with the
\* optimized URL and the optimized file name, when they answer, and the
\* answer reports the id of the upload the store has created as newUploadId.
C22_LargeImageCreatesUpload ==
  \A h \in Req :
    Done(h) /\ hs[h].method = "POST" /\ LargeImageUpload(hs[h].body)
      /\ deployed \in {Current, Legacy} =>
        /\ hs[h].uploadCalls = <<UploadCallFor(hs[h].body)>>
        /\ \A k \in OpsOf(h) : ops[k].state = "ok" => hs[h].response.newUploadId = ops[k].result

\* C23: whatever webhooks have been delivered, no handler has asked the
\* store to destroy an upload, the uploads the store held at the start are
\* all there, unchanged, and every 200 answer of the current and of the
\* legacy handler reports originalDeleted = false.
C23_OriginalPreserved ==
  /\ \A k \in 1..Len(ops) : ops[k].op # "uploads.destroy"
  /\ \A a \in AssetIds : a \in DOMAIN assets /\ assets[a] = InitialAssets[a]
  /\ \A h \in Req :
       Done(h) /\ hs[h].response.status = 200 /\ deployed \in {Current, Legacy} =>
         hs[h].response.originalDeleted = "false"

\* The legacy handler has created an optimized upload for a large image and
\* answered, and the store holds one more upload than at the start.
C23_Witness ==
  \E h \in Req :
    /\ Done(h) /\ LargeImageUpload(hs[h].body) /\ hs[h].body.id = "a1"
    /\ hs[h].response.newUploadId \in DOMAIN assets \ AssetIds
    /\ hs[h].response.originalDeleted = "false"

MalformedUploadRequest(b) ==
  \/ b.shape \in {"invalid", "nodata", "noattrs"}
  \/ b.id = Undef \/ b.url = Undef \/ b.headers = NoHeaders

\* C25: an invocation whose step 1 was answered 2xx with a malformed body
\* issues no call of steps 2-4, and fails with the StageRequestFailed kind.
C25_MalformedStageAnswerAborts ==
  \A i \in Inv :
    (Len(calls[i]) >= 1 /\ Succeeded(calls[i][1]) /\ MalformedUploadRequest(calls[i][1].answer.body)
       /\ inv[i].pc # "abandoned") =>
      /\ Len(calls[i]) = 1
      /\ inv[i].pc = "failed"
      /\ Kind(inv[i].error) = "StageRequestFailed"

\* C26: an invocation that has been called ends with a result or with an
\* error, also when an endpoint never responds.
C26_EventuallyTerminates ==
  \A i \in ConfigInv : (inv[i].pc # "idle") ~> (inv[i].pc \in {"done", "failed"})

\* C27: a handler answers only when every operation it has asked of the
\* store has settled; once it has answered, it asks nothing more and its
\* state no longer changes; and what it answers comes from its own request
\* and from its own operation alone: the optimizedUrl is derived from its
\* body, the newUploadId is the result of its own operation.
C27_CompleteBeforeResponse ==
  /\ [](\A h \in Req :
          Done(h) =>
            /\ \A k \in OpsOf(h) : ops[k].state # "pending"
            /\ hs[h].response.optimizedUrl \in {NoUrl, UploadCallFor(hs[h].body).url}
            /\ hs[h].response.newUploadId \in
                 {Undef} \cup {ops[k].result : k \in {j \in OpsOf(h) : ops[j].state = "ok"}})
  /\ [][\A h \in Req :
          Done(h) =>
            /\ hs'[h] = hs[h]
            /\ {k \in 1..Len(ops') : ops'[k].caller = h} = OpsOf(h)
            /\ \A k \in OpsOf(h) : ops'[k] = ops[k]]_vars

\* Two legacy handlers have run interleaved, the second called while the
\* first awaited its upload, and each has answered with its own upload.
C27_Witness ==
  /\ Len(ops) = 2 /\ ops[1].caller # ops[2].caller
  /\ \A h \in Req :
       /\ Done(h) /\ hs[h].response.newUploadId # Undef
       /\ \E k \in OpsOf(h) : ops[k].result = hs[h].response.newUploadId
  /\ hs[1].response.newUploadId # hs[2].response.newUploadId
  /\ ops[1].result = "new-3"

\* C28: the client is built with a token; once built, clientInstance is
\* never reassigned nor cleared, whatever the environment's token becomes;
\* and every operation of createUploadFromUrl, getUpload and deleteUpload is
\* asked of that one instance, with its credential.
C28_ClientBuiltOnce ==
  /\ [](/\ clientInstance.built => Truthy(clientInstance.apiToken)
        /\ ~clientInstance.built => ops = <<>>
        /\ \A k \in 1..Len(ops) : ops[k].auth = clientInstance.apiToken)
  /\ [][clientInstance.built => clientInstance' = clientInstance]_vars

\* The first call has built the client, and a second operation has been
\* asked of it after the environment's token was changed.
C28_Witness ==
  /\ Len(direct) = 2
  /\ clientInstance = [built |-> TRUE, apiToken |-> "secret"]
  /\ apiToken = "rotated"
  /\ Len(ops) = 2 /\ ops[2].auth = "secret" /\ ops[2].op = "uploads.destroy"
  /\ ops[1].state = "ok" /\ ops[2].state = "pending"

\* C29: a handler that has returned has sent one response, with status 405,
\* 200 or 500, also when its optimization path has thrown; one that has not
\* returned has sent none; and nothing is sent after the handler has
\* returned.
C29_ExactlyOneResponse ==
  /\ [](\A h \in Req :
          /\ hs[h].pc \in {"idle", "awaitUpload", "done"}
          /\ Done(h) => hs[h].sent = 1 /\ hs[h].response.status \in {405, 200, 500}
          /\ ~Done(h) => hs[h].sent = 0 /\ hs[h].response = NoResponse)
  /\ [][\A h \in Req : Done(h) => hs'[h] = hs[h]]_vars

\* The legacy handler has answered one delivery whose upload creation threw
\* and one whose body was null, each once.
C29_Witness ==
  \E h, g \in Req :
    /\ Done(h) /\ hs[h].caught # Undef /\ hs[h].sent = 1 /\ hs[h].response.status = 200
    /\ Done(g) /\ hs[g].sent = 1 /\ hs[g].response.status = 500

\* C30: every finalize call of an invocation is a PUT whose URL ends in the
\* input assetId and whose body names the input assetId; the only asset an
\* invocation has written is the one its input names, and every other asset
\* is as it was unless another invocation named it.
C30_OnlyInputAssetWritten ==
  /\ \A i \in Inv : \A idx \in CallsOfStep(i, 4) :
       /\ calls[i][idx].req.method = "PUT"
       /\ calls[i][idx].req.url = BaseUrl \o "/uploads/" \o inv[i].assetId
       /\ calls[i][idx].req.id = inv[i].assetId
  /\ \A i \in Inv : \A a \in DOMAIN assets : assets[a].writer = i => a = inv[i].assetId
  /\ \A a \in AssetIds :
       (\A i \in Inv : inv[i].assetId # a) => assets[a] = InitialAssets[a]

\* An invocation for a2 has succeeded and repointed a2, the other has run
\* for a2 as well, and a1 is as it was.
C30_Witness ==
  /\ \E i \in Inv : inv[i].pc = "done" /\ inv[i].assetId = "a2" /\ assets["a2"].writer = i
  /\ \A i \in Inv : inv[i].assetId = "a2" /\ Len(calls[i]) = 4
  /\ assets["a2"].path # OrigPath("a2")
  /\ assets["a1"] = InitialAssets["a1"]
=============================================================================
